---- MODULE Spec2Model ----
(***************************************************************************)
(* Model of analysis/yearly_sentiment/yearly_sentiment.py: one run of      *)
(* main(), i.e. load_dataset, compute_sentiment, aggregate_by_year, the    *)
(* CSV write and plot_sentiment_trend, each translated from its code.      *)
(*                                                                         *)
(* Text (date keys, transcripts) is a sequence of one-character strings.   *)
(* A confidence score is an integer number of tenths (9 stands for 0.9);   *)
(* a mean is the exact fraction sum/count in lowest terms.                 *)
(***************************************************************************)
EXTENDS Integers, Sequences, FiniteSets

VARIABLES source, data, pc, i, records, skipped, calls, results, df,
          yearly_stats, csv_written, png_written, error

vars == <<source, data, pc, i, records, skipped, calls, results, df,
          yearly_stats, csv_written, png_written, error>>

-----------------------------------------------------------------------------
(* Bounds and input alphabets *)

\* Largest number of entries of the input JSON object.
MaxEntries == 3

\* One unit of confidence: Scale tenths make 1.0.
Scale == 10

Whitespace == {" "}

DigitChars == <<"0", "1", "2", "3", "4", "5", "6", "7", "8", "9">>

\* "1989-04-16"
Key19890416 == <<"1", "9", "8", "9", "-", "0", "4", "-", "1", "6">>
\* "1989-6-1"
Key198961 == <<"1", "9", "8", "9", "-", "6", "-", "1">>
\* "not-a-date"
KeyNotADate == <<"n", "o", "t", "-", "a", "-", "d", "a", "t", "e">>
\* "1990-02-30"
Key19900230 == <<"1", "9", "9", "0", "-", "0", "2", "-", "3", "0">>

\* "1988-02-29"
Key19880229 == <<"1", "9", "8", "8", "-", "0", "2", "-", "2", "9">>

Keys == {Key19890416, Key198961, Key19880229, KeyNotADate, Key19900230}

\* Values of an entry: no "transcript" field, or one of these transcripts.
Entries ==
    { [has |-> FALSE, transcript |-> <<>>] } \cup
    { [has |-> TRUE, transcript |-> t] :
        t \in { <<" ", " ">>, <<" ", "G", " ">>, <<"B">> } }

\* What the external classifier may answer for a text: a label and a
\* confidence in tenths; the last two are outside its documented contract
\* (a label that is neither POSITIVE nor NEGATIVE, a confidence above 1.0).
ClassifierOutputs ==
    { [label |-> "POSITIVE", score |-> 9], [label |-> "NEGATIVE", score |-> 8],
      [label |-> "NEUTRAL",  score |-> 5], [label |-> "POSITIVE", score |-> 12] }

\* The input collections: JSON objects in file order, keys unique.
Datasets ==
    UNION { { d \in [1..n -> [date_str : Keys, entry : Entries]] :
                \A a, b \in 1..n : a # b => d[a].date_str # d[b].date_str } :
            n \in 0..MaxEntries }

-----------------------------------------------------------------------------
(* str.strip and datetime.strptime(date_str, "%Y-%m-%d") *)

RECURSIVE LStrip(_)
LStrip(s) ==
    IF s # <<>> /\ Head(s) \in Whitespace THEN LStrip(Tail(s)) ELSE s

RECURSIVE RStrip(_)
RStrip(s) ==
    IF s # <<>> /\ s[Len(s)] \in Whitespace
    THEN RStrip(SubSeq(s, 1, Len(s) - 1))
    ELSE s

\* Mutation of Strip: only the leading whitespace is removed (str.lstrip).
MutStripLeftOnly(s) == LStrip(s)

Strip(s) == RStrip(LStrip(s))

IsDigit(c) == \E n \in 1..10 : DigitChars[n] = c

DigitVal(c) == (CHOOSE n \in 1..10 : DigitChars[n] = c) - 1

At(s, p) == IF p \in 1..Len(s) THEN s[p] ELSE "EOS"

InRange(c, lo, hi) == IsDigit(c) /\ DigitVal(c) >= lo /\ DigitVal(c) <= hi

\* Length of the text the month directive matches at position p:
\* 1[0-2] | 0[1-9] | [1-9], the first alternative after which "-" follows.
MonthMatch(s, p) ==
    LET two == \/ (At(s, p) = "1" /\ InRange(At(s, p + 1), 0, 2))
               \/ (At(s, p) = "0" /\ InRange(At(s, p + 1), 1, 9))
    IN  IF two /\ At(s, p + 2) = "-" THEN 2
        ELSE IF InRange(At(s, p), 1, 9) /\ At(s, p + 1) = "-" THEN 1
        ELSE 0

\* Length of the text the day directive matches at position p:
\* 3[01] | [12]\d | 0[1-9] | [1-9] | " "[1-9], the first that matches.
DayMatch(s, p) ==
    IF \/ (At(s, p) = "3" /\ InRange(At(s, p + 1), 0, 1))
       \/ (InRange(At(s, p), 1, 2) /\ IsDigit(At(s, p + 1)))
       \/ (At(s, p) = "0" /\ InRange(At(s, p + 1), 1, 9))
    THEN 2
    ELSE IF InRange(At(s, p), 1, 9) THEN 1
    ELSE IF At(s, p) = " " /\ InRange(At(s, p + 1), 1, 9) THEN 2
    ELSE 0

RECURSIVE ToInt(_)
ToInt(s) ==
    IF s = <<>> THEN 0
    ELSE IF s[Len(s)] = " " THEN ToInt(SubSeq(s, 1, Len(s) - 1))
    ELSE 10 * ToInt(SubSeq(s, 1, Len(s) - 1)) + DigitVal(s[Len(s)])

IsLeap(y) == y % 4 = 0 /\ (y % 100 # 0 \/ y % 400 = 0)

DaysInMonth(y, m) ==
    IF m = 2 THEN (IF IsLeap(y) THEN 29 ELSE 28)
    ELSE IF m \in {4, 6, 9, 11} THEN 30
    ELSE 31

\* ok = FALSE stands for the ValueError strptime raises.
NoDate == [ok |-> FALSE, year |-> 0, month |-> 0, day |-> 0]

Strptime(date_str) ==
    IF ~(\A k \in 1..4 : IsDigit(At(date_str, k))) \/ At(date_str, 5) # "-"
    THEN NoDate
    ELSE
    LET ml == MonthMatch(date_str, 6)
        dl == DayMatch(date_str, 7 + ml)
    IN  IF ml = 0 \/ dl = 0 \/ 6 + ml + dl # Len(date_str)
        THEN NoDate
        ELSE
        LET y == ToInt(SubSeq(date_str, 1, 4))
            m == ToInt(SubSeq(date_str, 6, 5 + ml))
            d == ToInt(SubSeq(date_str, 7 + ml, 6 + ml + dl))
        IN  IF y < 1 \/ d > DaysInMonth(y, m)
            THEN NoDate
            ELSE [ok |-> TRUE, year |-> y, month |-> m, day |-> d]

-----------------------------------------------------------------------------
(* load_dataset *)

\* entry.get('transcript', '')
GetTranscript(entry) == IF entry.has THEN entry.transcript ELSE <<>>

\* not transcript or not transcript.strip()
MissingText(transcript) == transcript = <<>> \/ Strip(transcript) = <<>>

\* Mutation of LoadBody: an unparsable date is skipped without being counted.
MutLoadBodyUncounted(recs, skp, date_str, entry) ==
    LET transcript == GetTranscript(entry)
        date_obj == Strptime(date_str)
    IN  IF MissingText(transcript)
        THEN [records |-> recs, skipped |-> skp + 1]
        ELSE IF ~date_obj.ok
        THEN [records |-> recs, skipped |-> skp]
        ELSE [records |-> Append(recs, [date |-> date_str,
                                        year |-> date_obj.year,
                                        text |-> Strip(transcript)]),
              skipped |-> skp]

\* One iteration of the loop over data.items(): the records and the skip
\* counter after the entry (date_str, entry).
LoadBody(recs, skp, date_str, entry) ==
    LET transcript == GetTranscript(entry)
        date_obj == Strptime(date_str)
    IN  IF MissingText(transcript)
        THEN [records |-> recs, skipped |-> skp + 1]
        ELSE IF ~date_obj.ok
        THEN [records |-> recs, skipped |-> skp + 1]
        ELSE [records |-> Append(recs, [date |-> date_str,
                                        year |-> date_obj.year,
                                        text |-> Strip(transcript)]),
              skipped |-> skp]

Init ==
    /\ source \in {"ok", "absent", "corrupt"}
    /\ data \in (IF source = "ok" THEN Datasets ELSE {<<>>})
    /\ pc = "start"
    /\ i = 1
    /\ records = <<>>
    /\ skipped = 0
    /\ calls = <<>>
    /\ results = <<>>
    /\ df = <<>>
    /\ yearly_stats = <<>>
    /\ csv_written = FALSE
    /\ png_written = FALSE
    /\ error = "none"

Fail(e) == pc' = "failed" /\ error' = e

\* dataset_path.exists(), open and json.load
OpenDataset ==
    /\ pc = "start"
    /\ IF source = "absent" THEN Fail("FileNotFoundError")
       ELSE IF source = "corrupt" THEN Fail("JSONDecodeError")
       ELSE pc' = "load_loop" /\ error' = error
    /\ UNCHANGED <<source, data, i, records, skipped, calls, results, df,
                   yearly_stats, csv_written, png_written>>

LoadEntry ==
    /\ pc = "load_loop"
    /\ i <= Len(data)
    /\ LET st == LoadBody(records, skipped, data[i].date_str, data[i].entry)
       IN  records' = st.records /\ skipped' = st.skipped
    /\ i' = i + 1
    /\ UNCHANGED <<source, data, pc, calls, results, df, yearly_stats,
                   csv_written, png_written, error>>

\* pd.DataFrame(records) and the year-range message: a frame built from no
\* record has no 'year' column, and df['year'] raises KeyError.
LoadReturn ==
    /\ pc = "load_loop"
    /\ i > Len(data)
    /\ IF records = <<>> THEN Fail("KeyError")
       ELSE pc' = "init_classifier" /\ error' = error
    /\ df' = records
    /\ UNCHANGED <<source, data, i, records, skipped, calls, results,
                   yearly_stats, csv_written, png_written>>

-----------------------------------------------------------------------------
(* compute_sentiment *)

\* Mutation of SentimentValue: the sign of the label is dropped.
MutSentimentUnsigned(label, score) == score

\* POSITIVE -> score, otherwise -score
SentimentValue(label, score) == IF label = "POSITIVE" THEN score ELSE -score

\* Mutation of Classify: the classifier is invoked twice for a text (once
\* for the label, once for the score).
MutClassifyTwice(log, text, out) ==
    log \o << [text |-> text, label |-> out.label, score |-> out.score],
              [text |-> text, label |-> out.label, score |-> out.score] >>

\* The classifier's invocations after sentiment_analyzer(text) answered out.
Classify(log, text, out) ==
    Append(log, [text |-> text, label |-> out.label, score |-> out.score])

\* The row appended to results for the classifier's answer.
ResultRow(out) ==
    [sentiment_label |-> out.label,
     sentiment_score |-> out.score,
     sentiment_value |-> SentimentValue(out.label, out.score)]

\* pd.concat([df, sentiment_df], axis=1): both frames carry the index
\* 0..n-1, so row k of one is joined with row k of the other.
Concat(frame, sdf) ==
    [k \in 1..Len(frame) |->
        [date |-> frame[k].date, year |-> frame[k].year, text |-> frame[k].text,
         sentiment_label |-> sdf[k].sentiment_label,
         sentiment_score |-> sdf[k].sentiment_score,
         sentiment_value |-> sdf[k].sentiment_value]]

\* pipeline("sentiment-analysis", model=...): loading the model may raise.
InitClassifier ==
    /\ pc = "init_classifier"
    /\ \/ pc' = "score_loop" /\ error' = error
       \/ Fail("OSError")
    /\ UNCHANGED <<source, data, i, records, skipped, calls, results, df,
                   yearly_stats, csv_written, png_written>>

\* One iteration of the loop over df.iterrows().
ScoreRow ==
    /\ pc = "score_loop"
    /\ Len(results) < Len(df)
    /\ \E out \in ClassifierOutputs :
        /\ calls' = Classify(calls, df[Len(results) + 1].text, out)
        /\ results' = Append(results, ResultRow(out))
    /\ UNCHANGED <<source, data, pc, i, records, skipped, df, yearly_stats,
                   csv_written, png_written, error>>

\* The classifier raises on a row: the exception leaves compute_sentiment.
ScoreRaise ==
    /\ pc = "score_loop"
    /\ Len(results) < Len(df)
    /\ calls' = Classify(calls, df[Len(results) + 1].text,
                         [label |-> "RAISED", score |-> 0])
    /\ Fail("RuntimeError")
    /\ UNCHANGED <<source, data, i, records, skipped, results, df,
                   yearly_stats, csv_written, png_written>>

ScoreReturn ==
    /\ pc = "score_loop"
    /\ Len(results) >= Len(df)
    /\ df' = Concat(df, results)
    /\ pc' = "aggregate"
    /\ UNCHANGED <<source, data, i, records, skipped, calls, results,
                   yearly_stats, csv_written, png_written, error>>

-----------------------------------------------------------------------------
(* aggregate_by_year *)

Abs(x) == IF x < 0 THEN -x ELSE x

RECURSIVE GCD(_, _)
GCD(a, b) == IF b = 0 THEN a ELSE GCD(b, a % b)

\* sum / count as an exact fraction in lowest terms, den > 0.
Mean(sum, count) ==
    LET g == GCD(Abs(sum), count)
    IN  [num |-> sum \div g, den |-> count \div g]

\* The group keys of groupby('year'), which sorts them (sort=True).
RECURSIVE SortedKeys(_)
SortedKeys(S) ==
    IF S = {} THEN <<>>
    ELSE LET m == CHOOSE x \in S : \A y \in S : x <= y
         IN  <<m>> \o SortedKeys(S \ {m})

GroupKeys(frame) == SortedKeys({frame[k].year : k \in DOMAIN frame})

\* Mutation of SumValues: the confidence column is summed instead of the
\* signed sentiment.
RECURSIVE MutSumScores(_, _, _)
MutSumScores(frame, y, n) ==
    IF n = 0 THEN 0
    ELSE MutSumScores(frame, y, n - 1) +
         (IF frame[n].year = y THEN frame[n].sentiment_score ELSE 0)

\* Sum of sentiment_value over the first n rows of the group of year y,
\* in row order.
RECURSIVE SumValues(_, _, _)
SumValues(frame, y, n) ==
    IF n = 0 THEN 0
    ELSE SumValues(frame, y, n - 1) +
         (IF frame[n].year = y THEN frame[n].sentiment_value ELSE 0)

\* 'date': 'count' -- the rows of the group (every date is non-null).
CountDates(frame, y) == Cardinality({k \in DOMAIN frame : frame[k].year = y})

\* Mutation of MeanOfGroup: the 'first' aggregate instead of 'mean'.
MutFirstOfGroup(frame, y) ==
    LET first == CHOOSE k \in DOMAIN frame :
                    /\ frame[k].year = y
                    /\ \A j \in DOMAIN frame : frame[j].year = y => k <= j
    IN  Mean(frame[first].sentiment_value, 1)

\* 'sentiment_value': 'mean' -- the mean over the group of year y.
MeanOfGroup(frame, y) ==
    Mean(SumValues(frame, y, Len(frame)), CountDates(frame, y))

\* groupby('year').agg({...}).rename(...).reset_index()
GroupByAgg(frame) ==
    LET keys == GroupKeys(frame)
    IN  [g \in 1..Len(keys) |->
            [year |-> keys[g],
             mean_sentiment |-> MeanOfGroup(frame, keys[g]),
             comic_count |-> CountDates(frame, keys[g])]]

\* Insert a row into a frame sorted by year, after the rows not larger.
RECURSIVE InsertByYear(_, _)
InsertByYear(sorted, row) ==
    IF sorted = <<>> THEN <<row>>
    ELSE IF Head(sorted).year <= row.year
    THEN <<Head(sorted)>> \o InsertByYear(Tail(sorted), row)
    ELSE <<row>> \o sorted

\* Mutation of SortValues: the rows are sorted descending by year.
RECURSIVE MutInsertDescending(_, _)
MutInsertDescending(sorted, row) ==
    IF sorted = <<>> THEN <<row>>
    ELSE IF Head(sorted).year >= row.year
    THEN <<Head(sorted)>> \o MutInsertDescending(Tail(sorted), row)
    ELSE <<row>> \o sorted

RECURSIVE MutSortDescending(_)
MutSortDescending(stats) ==
    IF stats = <<>> THEN <<>>
    ELSE MutInsertDescending(MutSortDescending(SubSeq(stats, 1, Len(stats) - 1)),
                             stats[Len(stats)])

\* sort_values('year')
RECURSIVE SortValues(_)
SortValues(stats) ==
    IF stats = <<>> THEN <<>>
    ELSE InsertByYear(SortValues(SubSeq(stats, 1, Len(stats) - 1)),
                      stats[Len(stats)])

AggregateByYear(frame) == SortValues(GroupByAgg(frame))

Aggregate ==
    /\ pc = "aggregate"
    /\ yearly_stats' = AggregateByYear(df)
    /\ pc' = "write_csv"
    /\ UNCHANGED <<source, data, i, records, skipped, calls, results, df,
                   csv_written, png_written, error>>

-----------------------------------------------------------------------------
(* main: the report *)

\* yearly_stats.to_csv(CSV_OUTPUT, index=False); the write may raise.
WriteCsv ==
    /\ pc = "write_csv"
    /\ \/ csv_written' = TRUE /\ pc' = "plot" /\ error' = error
       \/ csv_written' = csv_written /\ Fail("OSError")
    /\ UNCHANGED <<source, data, i, records, skipped, calls, results, df,
                   yearly_stats, png_written>>

\* plot_sentiment_trend(yearly_stats, PNG_OUTPUT): rendering may raise
\* before plt.savefig.
Plot ==
    /\ pc = "plot"
    /\ \/ png_written' = TRUE /\ pc' = "done" /\ error' = error
       \/ png_written' = png_written /\ Fail("RuntimeError")
    /\ UNCHANGED <<source, data, i, records, skipped, calls, results, df,
                   yearly_stats, csv_written>>

Next ==
    \/ OpenDataset
    \/ LoadEntry
    \/ LoadReturn
    \/ InitClassifier
    \/ ScoreRow
    \/ ScoreRaise
    \/ ScoreReturn
    \/ Aggregate
    \/ WriteCsv
    \/ Plot

Spec == Init /\ [][Next]_vars

-----------------------------------------------------------------------------
(* Properties *)

\* The statistics have been computed from the scored frame.
Aggregated == pc \in {"write_csv", "plot", "done"} \/ yearly_stats # <<>>

\* What strptime makes of each key of the input alphabet.
ParsedKeys == [k \in Keys |-> Strptime(k)]

AllWhitespace(s) == \A k \in 1..Len(s) : s[k] \in Whitespace

\* An entry the loader has to skip: transcript absent, empty or
\* whitespace-only, or a key that does not parse as a date.
SkipCase(e) ==
    \/ ~e.entry.has
    \/ AllWhitespace(e.entry.transcript)
    \/ ~ParsedKeys[e.date_str].ok

Processed == 1..(i - 1)

\* C1: during and after the loop of load_dataset, the skip counter is the
\* number of processed entries that are skip cases and the number of records
\* is the number of the others (so each entry adds one to exactly one of
\* them), no entry makes the run fail, and once the loop is over
\* returned_count + skipped_count = input_count.
C1_EachEntryCountedOnce ==
    /\ skipped = Cardinality({k \in Processed : SkipCase(data[k])})
    /\ Len(records) = Cardinality({k \in Processed : ~SkipCase(data[k])})
    /\ (i <= Len(data) => pc \in {"start", "load_loop"} /\ error = "none")
    /\ (i > Len(data) => Len(records) + skipped = Len(data))

C1_Witness ==
    /\ pc = "init_classifier"
    /\ Len(data) = 3 /\ skipped = 2 /\ Len(records) = 1
    /\ \E k \in DOMAIN data :
          data[k].date_str = KeyNotADate /\ ~AllWhitespace(data[k].entry.transcript)
    /\ \E k \in DOMAIN data :
          data[k].entry.has /\ AllWhitespace(data[k].entry.transcript)

\* text is t without its leading and trailing whitespace.
IsTrimOf(text, t) ==
    /\ text # <<>>
    /\ text[1] \notin Whitespace /\ text[Len(text)] \notin Whitespace
    /\ \E a \in 1..Len(t) :
          /\ a + Len(text) - 1 <= Len(t)
          /\ text = SubSeq(t, a, a + Len(text) - 1)
          /\ \A k \in 1..Len(t) :
                (k < a \/ k > a + Len(text) - 1) => t[k] \in Whitespace

YearDigits(s) ==
    1000 * DigitVal(s[1]) + 100 * DigitVal(s[2]) + 10 * DigitVal(s[3])
        + DigitVal(s[4])

\* C2: while load_dataset builds the working set and when it returns it,
\* every record has a non-empty text equal to the trimmed transcript of its
\* source entry, a key that parses as a date and the year of that date;
\* every processed valid entry has exactly one record.
C2_RecordsWellFormed ==
    pc \in {"load_loop", "init_classifier"} =>
        /\ \A k \in DOMAIN records :
              /\ records[k].text # <<>>
              /\ ParsedKeys[records[k].date].ok
              /\ records[k].year = YearDigits(records[k].date)
              /\ \E j \in Processed :
                    /\ data[j].date_str = records[k].date
                    /\ data[j].entry.has
                    /\ IsTrimOf(records[k].text, data[j].entry.transcript)
        /\ \A j \in Processed :
              ~SkipCase(data[j]) =>
                  Cardinality({k \in DOMAIN records :
                                  records[k].date = data[j].date_str}) = 1

C2_Witness ==
    /\ pc = "init_classifier"
    /\ \E k \in DOMAIN records, j \in DOMAIN data :
          /\ records[k].date = Key198961 /\ data[j].date_str = Key198961
          /\ records[k].year = 1989
          /\ data[j].entry.transcript = <<" ", "G", " ">>
          /\ records[k].text = <<"G">>
    /\ \E k \in DOMAIN records : records[k].year = 1988

InContract(label, score) ==
    label \in {"POSITIVE", "NEGATIVE"} /\ score >= 0 /\ score <= Scale

\* C3: the signed sentiment of every scored record is determined by the
\* classifier's answer for that record's own text: the confidence for
\* POSITIVE, its negation for NEGATIVE; for an answer within the contract
\* its sign matches the label, its magnitude is the confidence and it lies
\* in [-1, 1].
C3_SignedSentiment ==
    /\ \A k \in DOMAIN results :
          LET r == results[k]
              c == calls[k]
          IN  /\ c.text = records[k].text
              /\ r.sentiment_label = c.label /\ r.sentiment_score = c.score
              /\ (c.label = "POSITIVE" => r.sentiment_value = c.score)
              /\ (c.label = "NEGATIVE" => r.sentiment_value = -c.score)
              /\ (InContract(c.label, c.score) =>
                    /\ Abs(r.sentiment_value) = c.score
                    /\ r.sentiment_value >= -Scale /\ r.sentiment_value <= Scale
                    /\ (c.label = "POSITIVE" => r.sentiment_value >= 0)
                    /\ (c.label = "NEGATIVE" => r.sentiment_value <= 0))
    /\ (pc \in {"aggregate", "write_csv", "plot", "done"} =>
          /\ Len(df) = Len(records)
          /\ \A k \in DOMAIN df :
                /\ df[k].text = records[k].text /\ df[k].date = records[k].date
                /\ df[k].sentiment_label = results[k].sentiment_label
                /\ df[k].sentiment_score = results[k].sentiment_score
                /\ df[k].sentiment_value = results[k].sentiment_value)

C3_Witness ==
    /\ pc = "done"
    /\ \E a, b \in DOMAIN df :
          /\ df[a].sentiment_label = "NEGATIVE" /\ df[a].sentiment_value = -8
          /\ df[b].sentiment_label = "POSITIVE" /\ df[b].sentiment_value = 9
          /\ df[a].text # df[b].text

\* C4: an answer of the classifier with a label that is neither POSITIVE nor
\* NEGATIVE, or with a confidence outside [0, 1], makes the run fail with
\* InvalidClassifierOutputError and yields no scored record.
C4_InvalidOutputRejected ==
    \A k \in DOMAIN calls :
        (calls[k].label # "RAISED" /\ ~InContract(calls[k].label, calls[k].score))
            => /\ pc = "failed"
               /\ error = "InvalidClassifierOutputError"
               /\ Len(results) < k

RECURSIVE SetSum(_, _)
SetSum(frame, rows) ==
    IF rows = {} THEN 0
    ELSE LET k == CHOOSE x \in rows : TRUE
         IN  frame[k].sentiment_value + SetSum(frame, rows \ {k})

RowsOfYear(frame, y) == {k \in DOMAIN frame : frame[k].year = y}

\* C5: every year of the output has as count the number of scored records
\* of that year, at least 1, and as mean the sum of their signed sentiments
\* divided by that count; the years of the output are exactly the years of
\* the scored records.
C5_CountAndMean ==
    Aggregated =>
        /\ \A g \in DOMAIN yearly_stats :
              LET r == yearly_stats[g]
                  rows == RowsOfYear(df, r.year)
              IN  /\ r.comic_count = Cardinality(rows)
                  /\ r.comic_count >= 1
                  /\ r.mean_sentiment.den > 0
                  /\ r.mean_sentiment.num * r.comic_count
                        = SetSum(df, rows) * r.mean_sentiment.den
        /\ {yearly_stats[g].year : g \in DOMAIN yearly_stats}
              = {df[k].year : k \in DOMAIN df}

C5_Witness ==
    /\ pc = "done"
    /\ \E a, b \in DOMAIN df :
          /\ a # b /\ df[a].year = 1989 /\ df[b].year = 1989
          /\ df[a].sentiment_value = 9 /\ df[b].sentiment_value = -8
    /\ \E g \in DOMAIN yearly_stats :
          /\ yearly_stats[g].year = 1989
          /\ yearly_stats[g].comic_count = 2
          /\ yearly_stats[g].mean_sentiment = [num |-> 1, den |-> 2]
    /\ Len(yearly_stats) = 2

\* C6: the year aggregates are strictly ascending by year, so no year
\* occurs twice.
C6_StrictlyAscending ==
    \A a, b \in DOMAIN yearly_stats :
        a < b => yearly_stats[a].year < yearly_stats[b].year

C6_Witness ==
    /\ pc = "done"
    /\ Len(df) = 3
    /\ df[1].year = 1989 /\ df[2].year = 1988 /\ df[3].year = 1989
    /\ Len(yearly_stats) = 2
    /\ csv_written

\* The permutations of 1..n, for every length a frame can have.
Perms ==
    [n \in 0..MaxEntries |->
        {p \in [1..n -> 1..n] : \A a, b \in 1..n : a # b => p[a] # p[b]}]

Permuted(frame, p) == [k \in 1..Len(frame) |-> frame[p[k]]]

EnvErrors == {"OSError", "RuntimeError"}

\* C8: a readable dataset from which no record is retained is carried
\* through to an empty result: the run does not fail in loading or in
\* aggregation, and the aggregate of no scored record is empty.
C8_EmptyIsNotAnError ==
    (source = "ok" /\ i > Len(data) /\ records = <<>>) =>
        /\ (pc = "failed" => error \in EnvErrors)
        /\ yearly_stats = <<>>

\* C9: in every terminal state either the run completed and both outputs
\* are written, or it failed and neither is.
C9_AllOrNothing ==
    /\ (pc = "done" => csv_written /\ png_written)
    /\ (pc = "failed" => ~csv_written /\ ~png_written)

RECURSIVE TotalCount(_)
TotalCount(stats) ==
    IF stats = <<>> THEN 0
    ELSE Head(stats).comic_count + TotalCount(Tail(stats))

\* C10: the classifier is invoked once per retained record, in order, never
\* for a skipped entry, only after loading has finished and one call at a
\* time; no aggregate exists before every retained record is scored, and the
\* counts of the aggregates sum to the number of retained records.
C10_ScoreThenAggregate ==
    /\ Len(calls) <= Len(records)
    /\ \A k \in DOMAIN calls :
          /\ calls[k].text = records[k].text
          /\ \E j \in DOMAIN data :
                ~SkipCase(data[j]) /\ data[j].date_str = records[k].date
    /\ (calls # <<>> => i > Len(data) /\ pc # "load_loop")
    /\ Len(results) <= Len(calls) /\ Len(calls) <= Len(results) + 1
    /\ (Len(calls) = Len(results) + 1 => pc = "failed")
    /\ (Aggregated =>
          /\ Len(calls) = Len(records)
          /\ Len(results) = Len(records)
          /\ TotalCount(yearly_stats) = Len(records))

C10_Witness ==
    /\ pc = "done"
    /\ Len(data) = 3 /\ skipped = 1
    /\ Len(calls) = 2 /\ TotalCount(yearly_stats) = 2
====
